---------------------------- MODULE Spec2Model ----------------------------
(***************************************************************************)
(* PdfGenerator: a JotForm webhook that normalises the submitted fields,   *)
(* renders them to a PDF, stores the file under uploads/ and optionally    *)
(* mails it.                                                               *)
(*                                                                         *)
(* JavaScript strings are modelled as sequences of one-character strings,  *)
(* so that includes(), replace(), trim() and JSON.parse() work on the      *)
(* characters the code works on.  JavaScript values are tagged records.    *)
(***************************************************************************)
EXTENDS Integers, Sequences, FiniteSets, TLC

VARIABLES
    gData, gOptions, gDefault, gResult, gDone,   \* one call of getFieldValue
    nForm, nOut, nFields, nPc,                   \* extractFormFields, then generateTemplate
    req,      \* the webhook requests: where each stands and its local variables
    files,    \* the uploads directory: file name -> content and modification time
    now,      \* the clock, in milliseconds
    env,      \* process.env
    sent,     \* the calls of transporter.sendMail, in order
    sweep,    \* cleanupOldFiles: the sweep under way and its pending callbacks
    served,   \* the last answer of GET /uploads/:filename
    browser,  \* one call of the puppeteer generatePDF
    listing   \* one entry of GET /pdfs

gVars == <<gData, gOptions, gDefault, gResult, gDone>>
nVars == <<nForm, nOut, nFields, nPc>>
hVars == <<req, files, now, env, sent>>
xVars == <<sweep, served, browser, listing>>
vars == <<gVars, nVars, hVars, xVars>>

---------------------------------------------------------------------------
(* Bounds of the model                                                     *)

\* longest candidate list handed to getFieldValue in SpecGet
MaxOptions == 3
\* most keys of a raw submission
MaxKeys == 2
\* last millisecond of the clock
MaxClock == 2

---------------------------------------------------------------------------
(* Characters and strings                                                  *)

Digit == <<"0", "1", "2", "3", "4", "5", "6", "7", "8", "9">>
DigitChars == {Digit[i] : i \in 1..10}
LowerChars == {"a", "b", "c", "d", "e", "f", "g", "h", "i", "j", "k", "l", "m",
               "n", "o", "p", "q", "r", "s", "t", "u", "v", "w", "x", "y", "z"}
UpperChars == {"A", "B", "C", "D", "E", "F", "G", "H", "I", "J", "K", "L", "M",
               "N", "O", "P", "Q", "R", "S", "T", "U", "V", "W", "X", "Y", "Z"}
\* the class [a-zA-Z0-9]
AlnumChars == LowerChars \cup UpperChars \cup DigitChars
\* what String.prototype.trim removes (the members that occur in the model)
WhiteSpace == {" ", "\t", "\n"}

DigitValue(c) == (CHOOSE i \in 1..10 : Digit[i] = c) - 1

RECURSIVE NatToStr(_)
NatToStr(n) == IF n < 10 THEN <<Digit[n + 1]>>
               ELSE NatToStr(n \div 10) \o <<Digit[(n % 10) + 1]>>

\* Number.prototype.toString for an integer
NumToStr(n) == IF n < 0 THEN <<"-">> \o NatToStr(0 - n) ELSE NatToStr(n)

RECURSIVE StrToNat(_)
StrToNat(s) == IF s = <<>> THEN 0
               ELSE 10 * StrToNat(SubSeq(s, 1, Len(s) - 1)) + DigitValue(s[Len(s)])

\* s.startsWith(p)
StartsWith(s, p) == Len(p) <= Len(s) /\ SubSeq(s, 1, Len(p)) = p

\* s.includes(p)
Includes(s, p) ==
    \E i \in 1..(Len(s) - Len(p) + 1) : SubSeq(s, i, i + Len(p) - 1) = p

\* s.trim()
Trim(s) ==
    LET keep == {i \in 1..Len(s) : s[i] \notin WhiteSpace}
    IN  IF keep = {} THEN <<>>
        ELSE LET lo == CHOOSE i \in keep : \A j \in keep : i <= j
                 hi == CHOOSE i \in keep : \A j \in keep : j <= i
             IN  SubSeq(s, lo, hi)

\* parts.join(sep) for an array of strings
RECURSIVE Join(_, _)
Join(parts, sep) ==
    IF parts = <<>> THEN <<>>
    ELSE IF Len(parts) = 1 THEN parts[1]
    ELSE parts[1] \o sep \o Join(Tail(parts), sep)

---------------------------------------------------------------------------
(* JavaScript values: a tag t and, by tag, the string s, the boolean b,    *)
(* the number n, or the own properties o in insertion order, each a pair   *)
(* <<key, value>>.  An array's properties are its indices.                 *)

Val(t, s, b, n, o) == [t |-> t, s |-> s, b |-> b, n |-> n, o |-> o]
Undefined == Val("undefined", <<>>, FALSE, 0, <<>>)
Null == Val("null", <<>>, FALSE, 0, <<>>)
Str(s) == Val("string", s, FALSE, 0, <<>>)
Bool(b) == Val("boolean", <<>>, b, 0, <<>>)
Num(n) == Val("number", <<>>, FALSE, n, <<>>)
Obj(o) == Val("object", <<>>, FALSE, 0, o)
Arr(a) == Val("array", <<>>, FALSE, 0, [i \in 1..Len(a) |-> <<NumToStr(i - 1), a[i]>>])

\* typeof v
TypeOf(v) == IF v.t \in {"null", "array"} THEN "object" ELSE v.t

\* the value of v in a condition: if (v), v || x, v ? x : y
Truthy(v) ==
    CASE v.t \in {"undefined", "null"} -> FALSE
      [] v.t = "string" -> v.s # <<>>
      [] v.t = "boolean" -> v.b
      [] v.t = "number" -> v.n # 0
      [] OTHER -> TRUE

\* the slip of keeping strings only: any other value gives w
OrElseString(v, w) == IF v.t = "string" /\ v.s # <<>> THEN v ELSE w

\* v || w
OrElse(v, w) == IF Truthy(v) THEN v ELSE w

\* reading a property of null or undefined throws a TypeError
Readable(v) == v.t \notin {"undefined", "null"}

\* the own enumerable properties of v, as pairs: a string's are its characters
Props(v) ==
    IF v.t = "string" THEN [i \in 1..Len(v.s) |-> <<NumToStr(i - 1), Str(<<v.s[i]>>)>>]
    ELSE v.o

\* v[k] for a readable v
Prop(v, k) ==
    LET ps == Props(v)
        hit == {i \in 1..Len(ps) : ps[i][1] = k}
    IN  IF hit = {} THEN Undefined ELSE ps[CHOOSE i \in hit : TRUE][2]

\* String(v), as a template literal `${v}` converts
RECURSIVE ToStr(_)
ToStr(v) ==
    CASE v.t = "string" -> v.s
      [] v.t = "number" -> NumToStr(v.n)
      [] v.t = "boolean" -> IF v.b THEN <<"t", "r", "u", "e">> ELSE <<"f", "a", "l", "s", "e">>
      [] v.t = "null" -> <<"n", "u", "l", "l">>
      [] v.t = "undefined" -> <<"u", "n", "d", "e", "f", "i", "n", "e", "d">>
      [] v.t = "array" ->
            Join([i \in 1..Len(v.o) |->
                    IF Readable(v.o[i][2]) THEN ToStr(v.o[i][2]) ELSE <<>>], <<",">>)
      [] OTHER -> <<"[", "o", "b", "j", "e", "c", "t", " ", "O", "b", "j", "e", "c", "t", "]">>

\* a record (a plain object used as a map): m[k], undefined when k is not set
Lookup(m, k) == IF k \in DOMAIN m THEN m[k] ELSE Undefined

\* m[k] = v
Put(m, k, v) == [x \in (DOMAIN m) \cup {k} |-> IF x = k THEN v ELSE m[x]]

EmptyRecord == [x \in {} |-> Undefined]

---------------------------------------------------------------------------
(* templateGenerator.js: getFieldValue                                     *)

\* data[field] !== undefined && data[field] !== null && data[field] !== ''
Qualifies(v) == v.t # "undefined" /\ v.t # "null" /\ v # Str(<<>>)

\* the slip `if (data[field])`: false and 0 are skipped too
RECURSIVE getFieldValueTruthy(_, _, _)
getFieldValueTruthy(data, fieldOptions, defaultValue) ==
    IF fieldOptions = <<>> THEN defaultValue
    ELSE IF Truthy(Lookup(data, Head(fieldOptions)))
         THEN Lookup(data, Head(fieldOptions))
         ELSE getFieldValueTruthy(data, Tail(fieldOptions), defaultValue)

RECURSIVE getFieldValueFrom(_, _, _)
getFieldValueFrom(data, fieldOptions, defaultValue) ==
    IF fieldOptions = <<>> THEN defaultValue
    ELSE IF Qualifies(Lookup(data, Head(fieldOptions)))
         THEN Lookup(data, Head(fieldOptions))
         ELSE getFieldValueFrom(data, Tail(fieldOptions), defaultValue)

\* the slip of a missing `return defaultValue`: nothing is returned
getFieldValueNoDefault(data, fieldOptions, defaultValue) ==
    getFieldValueFrom(data, fieldOptions, Undefined)

\* getFieldValue(data, fieldOptions, defaultValue = '')
getFieldValue(data, fieldOptions, defaultValue) ==
    getFieldValueFrom(data, fieldOptions, defaultValue)

---------------------------------------------------------------------------
(* templateGenerator.js: the candidate lists of generateTemplate           *)

sHomeownerName == <<"H", "o", "m", "e", "o", "w", "n", "e", "r", " ", "N", "a", "m", "e">>
sHomeownerFirstName == <<"H", "o", "m", "e", "o", "w", "n", "e", "r", " ", "F", "i",
        "r", "s", "t", " ", "N", "a", "m", "e">>
sHomeownerLastName == <<"H", "o", "m", "e", "o", "w", "n", "e", "r", " ", "L", "a",
        "s", "t", " ", "N", "a", "m", "e">>
sHomeownerEmail == <<"H", "o", "m", "e", "o", "w", "n", "e", "r", " ", "E", "m", "a", "i", "l">>
sHomeownerEmailPlease ==
    <<"H", "o", "m", "e", "o", "w", "n", "e", "r", " ", "E", "m", "a", "i", "l",
            " ", "(", "P", "L", "E", "A", "S", "E", " ", "I", "N", "C", "L", "U",
            "D", "E", " ", "T", "H", "I", "S", ")">>
sHomeownerPhoneNumber == <<"H", "o", "m", "e", "o", "w", "n", "e", "r", " ", "P",
        "h", "o", "n", "e", " ", "N", "u", "m", "b", "e", "r">>
sProjectAddress == <<"P", "r", "o", "j", "e", "c", "t", " ", "A", "d", "d", "r", "e", "s", "s">>
sProjectManager == <<"P", "r", "o", "j", "e", "c", "t", " ", "M", "a", "n", "a", "g", "e", "r">>
sprojectManager == <<"p", "r", "o", "j", "e", "c", "t", "M", "a", "n", "a", "g", "e", "r">>
sPMEmail == <<"P", "M", " ", "E", "m", "a", "i", "l">>

\* the six contact fields generateTemplate resolves
Fields == {"projectManager", "pmEmail", "homeownerName", "homeownerPhone",
           "homeownerEmail", "projectAddress"}

\* the candidate keys of a field, in the order getFieldValue tries them
FieldOptions(f) ==
    CASE f = "projectManager" ->
            << sProjectManager, sprojectManager,
               <<"q", "1", "3", "5", "_", "p", "r", "o", "j", "e", "c", "t", "M",
                       "a", "n", "a", "g", "e", "r">>,
               <<"p", "m", "N", "a", "m", "e">>, <<"P", "M", " ", "N", "a", "m", "e">> >>
      [] f = "pmEmail" ->
            << sPMEmail, <<"p", "m", "E", "m", "a", "i", "l">>, <<"q", "1", "3",
                    "6", "_", "p", "m", "E", "m", "a", "i", "l">>,
               <<"P", "r", "o", "j", "e", "c", "t", " ", "M", "a", "n", "a", "g",
                       "e", "r", " ", "E", "m", "a", "i", "l">> >>
      [] f = "homeownerName" ->
            << sHomeownerName, <<"h", "o", "m", "e", "o", "w", "n", "e", "r", "N",
                    "a", "m", "e">>, <<"y", "o", "u", "r", "N", "a", "m", "e">>,
               <<"f", "u", "l", "l", "N", "a", "m", "e">>, <<"n", "a", "m", "e">> >>
      [] f = "homeownerPhone" ->
            << sHomeownerPhoneNumber, <<"h", "o", "m", "e", "o", "w", "n", "e", "r",
                    "P", "h", "o", "n", "e", "N", "u", "m", "b", "e", "r">>,
               <<"p", "h", "o", "n", "e">>, <<"p", "h", "o", "n", "e", "N", "u",
                       "m", "b", "e", "r">> >>
      [] f = "homeownerEmail" ->
            << sHomeownerEmailPlease, sHomeownerEmail, <<"h", "o", "m", "e", "o",
                    "w", "n", "e", "r", "E", "m", "a", "i", "l">>,
               <<"e", "m", "a", "i", "l">>, <<"y", "o", "u", "r", "E", "m", "a", "i", "l">> >>
      [] f = "projectAddress" ->
            << sProjectAddress, <<"p", "r", "o", "j", "e", "c", "t", "A", "d", "d",
                    "r", "e", "s", "s">>, <<"a", "d", "d", "r", "e", "s", "s">> >>

\* the default of a field
FieldDefault(f) ==
    CASE f = "projectManager" -> Str(sProjectManager)
      [] f = "homeownerName" -> Str(<<"H", "o", "m", "e", "o", "w", "n", "e", "r">>)
      [] OTHER -> Str(<<>>)

\* the values generateTemplate prints for the six contact fields
ResolveFields(data) ==
    [f \in Fields |-> getFieldValue(data, FieldOptions(f), FieldDefault(f))]

---------------------------------------------------------------------------
(* app.js: extractFormFields                                               *)

\* the branch of the if / else-if chain that a key takes
Branch(key) ==
    IF \/ Includes(key, <<"_", "y", "o", "u", "r", "N", "a", "m", "e">>)
       \/ Includes(key, <<"_", "n", "a", "m", "e">>)
       \/ Includes(key, <<"_", "f", "u", "l", "l", "N", "a", "m", "e">>)
    THEN "name"
    ELSE IF \/ Includes(key, <<"_", "e", "m", "a", "i", "l">>)
            \/ Includes(key, <<"_", "y", "o", "u", "r", "E", "m", "a", "i", "l">>)
    THEN "email"
    ELSE IF \/ Includes(key, <<"_", "p", "h", "o", "n", "e">>)
            \/ Includes(key, <<"_", "p", "h", "o", "n", "e", "N", "u", "m", "b", "e", "r">>)
    THEN "phone"
    ELSE IF \/ Includes(key, <<"_", "a", "d", "d", "r", "e", "s", "s">>)
            \/ Includes(key, <<"_", "p", "r", "o", "j", "e", "c", "t", "A", "d",
                    "d", "r", "e", "s", "s">>)
    THEN "address"
    ELSE IF \/ Includes(key, <<"_", "p", "r", "o", "j", "e", "c", "t", "M", "a",
                    "n", "a", "g", "e", "r">>)
            \/ Includes(key, <<"_", "p", "m", "N", "a", "m", "e">>)
    THEN "projectManager"
    ELSE IF Includes(key, <<"_", "p", "m", "E", "m", "a", "i", "l">>)
    THEN "pmEmail"
    ELSE "none"

sFirst == <<"f", "i", "r", "s", "t">>
sLast == <<"l", "a", "s", "t">>

\* typeof value === 'object' alone: null passes
IsObjectValueNoNullCheck(value) == TypeOf(value) = "object"

\* value && typeof value === 'object'
IsObjectValue(value) == Truthy(value) /\ TypeOf(value) = "object"

\* the template `${value.first || ''} ${value.last || ''}` left untrimmed
FullNameNoTrim(value) ==
    ToStr(OrElse(Prop(value, sFirst), Str(<<>>)))
        \o <<" ">> \o ToStr(OrElse(Prop(value, sLast), Str(<<>>)))

\* `${value.first || ''} ${value.last || ''}`.trim()
FullName(value) ==
    Trim(ToStr(OrElse(Prop(value, sFirst), Str(<<>>)))
            \o <<" ">> \o ToStr(OrElse(Prop(value, sLast), Str(<<>>))))

\* the address parts, in the order the code pushes them
AddressPartNames ==
    << <<"a", "d", "d", "r", "_", "l", "i", "n", "e", "1">>,
       <<"a", "d", "d", "r", "_", "l", "i", "n", "e", "2">>,
       <<"c", "i", "t", "y">>, <<"s", "t", "a", "t", "e">>,
       <<"p", "o", "s", "t", "a", "l">> >>

\* every part joined, the empty ones too
AddressJoinAll(value) ==
    Join([i \in 1..Len(AddressPartNames) |->
            LET part == Prop(value, AddressPartNames[i])
            IN  IF Readable(part) THEN ToStr(part) ELSE <<>>], <<",", " ">>)

\* addressParts after the five pushes, then addressParts.join(', ')
AddressJoin(value) ==
    LET pushed == {i \in 1..Len(AddressPartNames) : Truthy(Prop(value, AddressPartNames[i]))}
        RECURSIVE parts(_)
        parts(i) == IF i > Len(AddressPartNames) THEN <<>>
                    ELSE IF i \in pushed
                         THEN <<ToStr(Prop(value, AddressPartNames[i]))>> \o parts(i + 1)
                         ELSE parts(i + 1)
    IN  Join(parts(1), <<",", " ">>)

\* key.replace(/^q\d+_/, '')
CleanKey(key) ==
    LET ends == {i \in 3..Len(key) :
                    /\ key[1] = "q"
                    /\ key[i] = "_"
                    /\ \A j \in 2..(i - 1) : key[j] \in DigitChars}
    IN  IF ends = {} THEN key
        ELSE SubSeq(key, (CHOOSE i \in ends : \A j \in ends : i <= j) + 1, Len(key))

\* the if / else-if chain of one iteration: the canonical fields set from key
ResolveStep(rec, key, value) ==
    LET b == Branch(key)
        orEmpty == OrElse(value, Str(<<>>))
    IN  CASE b = "name" ->
               IF IsObjectValue(value)
               THEN IF ~Readable(value) THEN [threw |-> TRUE, rec |-> rec]
                    ELSE IF Truthy(Prop(value, sFirst)) \/ Truthy(Prop(value, sLast))
                    THEN [threw |-> FALSE,
                          rec |-> Put(Put(Put(rec, sHomeownerName, Str(FullName(value))),
                                          sHomeownerFirstName,
                                          OrElse(Prop(value, sFirst), Str(<<>>))),
                                      sHomeownerLastName,
                                      OrElse(Prop(value, sLast), Str(<<>>)))]
                    ELSE [threw |-> FALSE, rec |-> Put(rec, sHomeownerName, orEmpty)]
               ELSE [threw |-> FALSE, rec |-> Put(rec, sHomeownerName, orEmpty)]
          [] b = "email" ->
               [threw |-> FALSE,
                rec |-> Put(Put(rec, sHomeownerEmail, orEmpty), sHomeownerEmailPlease, orEmpty)]
          [] b = "phone" ->
               [threw |-> FALSE, rec |-> Put(rec, sHomeownerPhoneNumber, orEmpty)]
          [] b = "address" ->
               IF IsObjectValue(value)
               THEN IF ~Readable(value) THEN [threw |-> TRUE, rec |-> rec]
                    ELSE [threw |-> FALSE,
                          rec |-> Put(rec, sProjectAddress, Str(AddressJoin(value)))]
               ELSE [threw |-> FALSE, rec |-> Put(rec, sProjectAddress, orEmpty)]
          [] b = "projectManager" ->
               [threw |-> FALSE,
                rec |-> Put(Put(rec, sProjectManager, orEmpty), sprojectManager, orEmpty)]
          [] b = "pmEmail" ->
               [threw |-> FALSE, rec |-> Put(rec, sPMEmail, orEmpty)]
          [] OTHER -> [threw |-> FALSE, rec |-> rec]

\* the copies that end an iteration: under the key itself and under its clean name
CopyStep(rec, key, value) ==
    LET cleanKey == CleanKey(key)
        own == Put(rec, key, value)
    IN  IF cleanKey # key THEN Put(own, cleanKey, value) ELSE own

\* one iteration of the for-in loop
ExtractStep(rec, key, value) ==
    LET r == ResolveStep(rec, key, value)
    IN  IF r.threw THEN r ELSE [threw |-> FALSE, rec |-> CopyStep(r.rec, key, value)]

\* a canonical array index: "0", or digits with no leading zero
IsIndexKey(k) ==
    /\ k # <<>>
    /\ \A i \in 1..Len(k) : k[i] \in DigitChars
    /\ (Len(k) > 1 => k[1] # "0")

\* the keys `for (const key in v)` visits: indices ascending, then insertion order
ForInKeys(v) ==
    LET ps == IF v.t \in {"string", "object", "array"} THEN Props(v) ELSE <<>>
        idx == {i \in 1..Len(ps) : IsIndexKey(ps[i][1])}
        others == {i \in 1..Len(ps) : i \notin idx}
        below(i) == {j \in idx : StrToNat(ps[j][1]) < StrToNat(ps[i][1])}
        before(i) == {j \in others : j < i}
    IN  [p \in 1..Len(ps) |->
            IF p <= Cardinality(idx)
            THEN ps[CHOOSE i \in idx : Cardinality(below(i)) = p - 1][1]
            ELSE ps[CHOOSE i \in others :
                        Cardinality(before(i)) = p - Cardinality(idx) - 1][1]]

\* extractedData after the iterations over the first n of keys
RECURSIVE ExtractLoop(_, _, _)
ExtractLoop(formData, keys, n) ==
    IF n = 0 THEN [threw |-> FALSE, rec |-> EmptyRecord]
    ELSE LET before == ExtractLoop(formData, keys, n - 1)
         IN  IF before.threw THEN before
             ELSE ExtractStep(before.rec, keys[n], Prop(formData, keys[n]))

\* extractedData after the first n iterations over formData
ExtractPrefix(formData, n) == ExtractLoop(formData, ForInKeys(formData), n)

\* extractFormFields(formData): the record returned, or threw
extractFormFields(formData) ==
    LET keys == ForInKeys(formData)
    IN  ExtractLoop(formData, keys, Len(keys))

---------------------------------------------------------------------------
(* The webhook requests, and the state in which none has arrived          *)

Reqs == {"r1", "r2"}

NoFile == <<>>
NoResponse == [status |-> 0, message |-> ""]
IdleReq ==
    [pc |-> "idle", body |-> Undefined, formData |-> Undefined, rec |-> EmptyRecord,
     buffer |-> <<>>, timestamp |-> 0, fileName |-> NoFile, pdfUrl |-> <<>>,
     error |-> "", res |-> NoResponse, replies |-> 0]

hIdle ==
    /\ req = [r \in Reqs |-> IdleReq]
    /\ files = EmptyRecord
    /\ now = 0
    /\ env = [ENABLE_EMAIL |-> FALSE, NOTIFICATION_EMAIL |-> <<>>, BASE_URL |-> <<>>]
    /\ sent = <<>>

\* no sweep under way, no file requested, no browser launched, nothing listed
NoSweep == [pc |-> "idle", now |-> 0, last |-> 0, stat |-> {}, unlink |-> {}]
NoAnswer == [name |-> <<>>, status |-> 0, path |-> <<>>]
NoBrowser ==
    [pc |-> "idle", calls |-> 0, launches |-> 0, closes |-> 0, open |-> 0,
     outcome |-> "none", settled |-> "none"]
NoListing ==
    [segment |-> <<>>, timestamp |-> 0, file |-> <<>>, fileName |-> <<>>,
     date |-> [valid |-> FALSE, time |-> 0], done |-> FALSE]
xIdle ==
    /\ sweep = NoSweep
    /\ served = NoAnswer
    /\ browser = NoBrowser
    /\ listing = NoListing

---------------------------------------------------------------------------
(* Specification SpecGet: getFieldValue on every small record              *)

GKeys == {<<"a">>, <<"b">>, <<"c">>}
GVals == {Undefined, Null, Str(<<>>), Str(<<"x">>), Bool(FALSE), Num(0)}
GDefaults == {Str(<<>>), Bool(FALSE), Str(<<"d">>)}
GRecords == UNION {[S -> GVals] : S \in SUBSET GKeys}
GLists == UNION {[1..n -> GKeys] : n \in 0..MaxOptions}

nIdle == /\ nForm = Null /\ nOut = [threw |-> FALSE, rec |-> EmptyRecord]
         /\ nFields = [f \in Fields |-> Undefined] /\ nPc = "idle"
gIdle == /\ gData = EmptyRecord /\ gOptions = <<>> /\ gDefault = Undefined
         /\ gResult = Undefined /\ gDone = FALSE

InitGet ==
    /\ gData \in GRecords
    /\ gOptions \in GLists
    /\ gDefault \in GDefaults
    /\ gResult = Undefined
    /\ gDone = FALSE
    /\ nIdle
    /\ hIdle
    /\ xIdle

CallGetFieldValue ==
    /\ ~gDone
    /\ gResult' = getFieldValue(gData, gOptions, gDefault)
    /\ gDone' = TRUE
    /\ UNCHANGED <<gData, gOptions, gDefault, nVars, hVars, xVars>>

NextGet == CallGetFieldValue

SpecGet == InitGet /\ [][NextGet]_vars

---------------------------------------------------------------------------
(* Specification SpecNorm: extractFormFields on every small submission,    *)
(* then the contact fields as generateTemplate resolves them               *)

\* raw keys of a submission: index-prefixed ones, plain ones, canonical labels
kName == <<"q", "1", "_", "n", "a", "m", "e">>
kFullName == <<"q", "2", "_", "f", "u", "l", "l", "N", "a", "m", "e">>
kYourName == <<"y", "o", "u", "r", "N", "a", "m", "e">>
kEmail == <<"q", "3", "_", "e", "m", "a", "i", "l">>
kAddress == <<"q", "4", "_", "a", "d", "d", "r", "e", "s", "s">>
kPhone == <<"q", "5", "_", "p", "h", "o", "n", "e">>
kProjectManager == <<"q", "1", "3", "5", "_", "p", "r", "o", "j", "e", "c", "t",
        "M", "a", "n", "a", "g", "e", "r">>
kPmEmail == <<"q", "1", "3", "6", "_", "p", "m", "E", "m", "a", "i", "l">>
kFormID == <<"f", "o", "r", "m", "I", "D">>

RawKeys ==
    { kName, kFullName, kYourName, sHomeownerName, kEmail, sHomeownerEmail,
      kAddress, kPhone, kProjectManager, kPmEmail, kFormID }

sAl == <<"A", "l">>
sBo == <<"B", "o">>
sJane == <<"J", "a", "n", "e">>
sDoe == <<"D", "o", "e">>

JaneDoe == Obj(<< <<sFirst, Str(sJane)>>, <<sLast, Str(sDoe)>> >>)
JaneOnly == Obj(<< <<sFirst, Str(sJane)>> >>)
DoeOnly == Obj(<< <<sLast, Str(sDoe)>>, <<sFirst, Str(<<>>)>> >>)

AddressPartValues ==
    << <<"1", " ", "E", "l", "m", " ", "S", "t">>,
       <<"A", "p", "t", " ", "2">>, <<"E", "l", "y">>, <<"N", "V">>,
       <<"8", "9", "3", "0", "1">> >>

\* the address object that holds exactly the parts of S, in the fixed order
AddressObject(S) ==
    LET RECURSIVE props(_)
        props(i) ==
            IF i > Len(AddressPartNames) THEN <<>>
            ELSE IF i \in S
                 THEN << <<AddressPartNames[i], Str(AddressPartValues[i])>> >> \o props(i + 1)
                 ELSE props(i + 1)
    IN  Obj(props(1))

\* every subset of populated parts, and one object with an empty and a null part
AddressObjects ==
    {AddressObject(S) : S \in SUBSET (1..Len(AddressPartNames))}
        \cup { Obj(<< <<AddressPartNames[3], Str(AddressPartValues[3])>>,
                      <<AddressPartNames[4], Str(<<>>)>>,
                      <<AddressPartNames[5], Null>> >>) }

\* an object of no shape the code knows
OddObject == Obj(<< <<<<"x">>, Str(sAl)>> >>)

\* the values a key is submitted with
RawValues(key) ==
    CASE key = kName ->
            { Str(sAl), Str(<<>>), Null, Num(7), Bool(FALSE), Arr(<<>>), Obj(<<>>),
              JaneDoe, JaneOnly, DoeOnly, OddObject }
      [] key = kFullName -> { Str(sBo), JaneOnly }
      [] key = kEmail -> { Str(sAl), Str(<<>>), Null, Obj(<<>>) }
      [] key = kAddress ->
            { Str(sAl), Null, AddressObject({3, 4}), AddressObject({}), Arr(<<>>) }
      [] key = kProjectManager -> { Str(sAl), Str(<<>>), Null, Obj(<<>>) }
      [] key = sHomeownerName -> { Str(sBo), Str(<<>>) }
      [] key \in {kPhone, kPmEmail} -> { Str(sBo), Null, OddObject }
      [] OTHER -> { Str(sBo), Null }

RawPairs == UNION {{<<k, v>> : v \in RawValues(k)} : k \in RawKeys}

\* the submissions: the objects of at most MaxKeys distinct keys, in every
\* order; an address alone, with every subset of its parts; and the values
\* that are no plain object
RawForms ==
    {Obj(ps) : ps \in {qs \in UNION {[1..n -> RawPairs] : n \in 0..MaxKeys} :
                          \A i, j \in 1..Len(qs) : i # j => qs[i][1] # qs[j][1]}}
        \cup {Obj(<< <<kAddress, a>> >>) : a \in AddressObjects}
        \cup {Null, Undefined, Str(sAl), Num(7), Arr(<<Str(sAl)>>)}

InitNorm ==
    /\ nForm \in RawForms
    /\ nOut = [threw |-> FALSE, rec |-> EmptyRecord]
    /\ nFields = [f \in Fields |-> Undefined]
    /\ nPc = "start"
    /\ gIdle
    /\ hIdle
    /\ xIdle

CallExtractFormFields ==
    /\ nPc = "start"
    /\ nOut' = extractFormFields(nForm)
    /\ nPc' = IF nOut'.threw THEN "threw" ELSE "extracted"
    /\ UNCHANGED <<nForm, nFields, gVars, hVars, xVars>>

CallGenerateTemplate ==
    /\ nPc = "extracted"
    /\ nFields' = ResolveFields(nOut.rec)
    /\ nPc' = "resolved"
    /\ UNCHANGED <<nForm, nOut, gVars, hVars, xVars>>

NextNorm == CallExtractFormFields \/ CallGenerateTemplate

SpecNorm == InitNorm /\ [][NextNorm]_vars

---------------------------------------------------------------------------
(* JSON.parse, on the characters of the text.  Modelled: objects, arrays,  *)
(* strings without escape sequences, integers, true, false, null, and the  *)
(* white space between them; a backslash, a fraction or an exponent does   *)
(* not occur in the payloads of the model.                                 *)

JsonWhiteSpace == {" ", "\t", "\n", "\r"}

Failed == [ok |-> FALSE, v |-> Undefined, next |-> 0]
Parsed(v, next) == [ok |-> TRUE, v |-> v, next |-> next]

\* the character at i, or "" past the end
At(s, i) == IF i \in 1..Len(s) THEN s[i] ELSE ""

\* the first position from i on that holds no white space
RECURSIVE SkipWs(_, _)
SkipWs(s, i) ==
    IF i <= Len(s) /\ s[i] \in JsonWhiteSpace THEN SkipWs(s, i + 1) ELSE i

\* the first position from i on that holds c, or 0
RECURSIVE Find(_, _, _)
Find(s, i, c) ==
    IF i > Len(s) THEN 0 ELSE IF s[i] = c THEN i ELSE Find(s, i + 1, c)

\* a string literal that opens at i
ParseString(s, i) ==
    LET close == Find(s, i + 1, "\"")
    IN  IF At(s, i) # "\"" \/ close = 0 THEN Failed
        ELSE IF Find(SubSeq(s, i + 1, close - 1), 1, "\\") # 0 THEN Failed
        ELSE Parsed(Str(SubSeq(s, i + 1, close - 1)), close + 1)

\* the first position from i on that holds no digit
RECURSIVE SkipDigits(_, _)
SkipDigits(s, i) ==
    IF i <= Len(s) /\ s[i] \in DigitChars THEN SkipDigits(s, i + 1) ELSE i

\* an integer that starts at i
ParseNumber(s, i) ==
    LET from == IF At(s, i) = "-" THEN i + 1 ELSE i
        stop == SkipDigits(s, from)
        to == IF At(s, from) = "0" THEN from + 1 ELSE stop
    IN  IF stop = from THEN Failed
        ELSE Parsed(Num((IF from = i THEN 1 ELSE -1) * StrToNat(SubSeq(s, from, to - 1))), to)

\* o with property key set to v: in place when the key is there already
SetProp(o, key, v) ==
    IF \E i \in 1..Len(o) : o[i][1] = key
    THEN [i \in 1..Len(o) |-> IF o[i][1] = key THEN <<key, v>> ELSE o[i]]
    ELSE Append(o, <<key, v>>)

RECURSIVE ParseValue(_, _), ParseMembers(_, _, _), ParseElements(_, _, _)

ParseValue(s, i) ==
    LET j == SkipWs(s, i)
        c == At(s, j)
        word(w) == SubSeq(s, j, j + Len(w) - 1) = w
    IN  CASE c = "{" ->
               IF At(s, SkipWs(s, j + 1)) = "}"
               THEN Parsed(Obj(<<>>), SkipWs(s, j + 1) + 1)
               ELSE ParseMembers(s, j + 1, <<>>)
          [] c = "[" ->
               IF At(s, SkipWs(s, j + 1)) = "]"
               THEN Parsed(Arr(<<>>), SkipWs(s, j + 1) + 1)
               ELSE ParseElements(s, j + 1, <<>>)
          [] c = "\"" -> ParseString(s, j)
          [] c = "-" \/ c \in DigitChars -> ParseNumber(s, j)
          [] c = "t" /\ word(<<"t", "r", "u", "e">>) -> Parsed(Bool(TRUE), j + 4)
          [] c = "f" /\ word(<<"f", "a", "l", "s", "e">>) -> Parsed(Bool(FALSE), j + 5)
          [] c = "n" /\ word(<<"n", "u", "l", "l">>) -> Parsed(Null, j + 4)
          [] OTHER -> Failed

\* the members of an object from i on, after those of acc
ParseMembers(s, i, acc) ==
    LET key == ParseString(s, SkipWs(s, i))
        colon == SkipWs(s, key.next)
        val == ParseValue(s, colon + 1)
        then == SkipWs(s, val.next)
        more == SetProp(acc, key.v.s, val.v)
    IN  IF ~key.ok \/ At(s, colon) # ":" THEN Failed
        ELSE IF ~val.ok THEN Failed
        ELSE IF At(s, then) = "," THEN ParseMembers(s, then + 1, more)
        ELSE IF At(s, then) = "}" THEN Parsed(Obj(more), then + 1)
        ELSE Failed

\* the elements of an array from i on, after those of acc
ParseElements(s, i, acc) ==
    LET val == ParseValue(s, i)
        then == SkipWs(s, val.next)
    IN  IF ~val.ok THEN Failed
        ELSE IF At(s, then) = "," THEN ParseElements(s, then + 1, Append(acc, val.v))
        ELSE IF At(s, then) = "]" THEN Parsed(Arr(Append(acc, val.v)), then + 1)
        ELSE Failed

\* JSON.parse(text): ok and the value, or not ok for a SyntaxError
JSONparse(text) ==
    LET r == ParseValue(text, 1)
    IN  IF r.ok /\ SkipWs(text, r.next) > Len(text) THEN r ELSE Failed

---------------------------------------------------------------------------
(* app.js: the webhook handler                                             *)

sRawRequest == <<"r", "a", "w", "R", "e", "q", "u", "e", "s", "t">>

\* the catch block leaves formData = {} instead of taking the raw string
ParseOrEmpty(rawRequestStr) ==
    LET r == JSONparse(ToStr(rawRequestStr))
    IN  IF r.ok THEN r.v ELSE Obj(<<>>)

\* try { formData = JSON.parse(rawRequestStr) } catch { formData = rawRequestStr }
ParseOrKeep(rawRequestStr) ==
    LET r == JSONparse(ToStr(rawRequestStr))
    IN  IF r.ok THEN r.v ELSE rawRequestStr

\* formData as the handler derives it from req.body
Unwrap(body) ==
    ParseOrKeep(OrElse(Prop(body, sRawRequest), Str(<<"{", "}">>)))

\* replace(/[^a-zA-Z0-9]/, '') without the g flag: the first match only
SanitizeFirstOnly(s) ==
    LET bad == {i \in 1..Len(s) : s[i] \notin AlnumChars}
    IN  IF bad = {} THEN s
        ELSE LET b == CHOOSE i \in bad : \A j \in bad : i <= j
             IN  SubSeq(s, 1, b - 1) \o SubSeq(s, b + 1, Len(s))

RECURSIVE SanitizeFrom(_)
SanitizeFrom(s) ==
    IF s = <<>> THEN <<>>
    ELSE IF Head(s) \in AlnumChars THEN <<Head(s)>> \o SanitizeFrom(Tail(s))
    ELSE SanitizeFrom(Tail(s))

\* s.replace(/[^a-zA-Z0-9]/g, '')
Sanitize(s) == SanitizeFrom(s)

\* `Gates_TurnIn_${homeownerName}_${timestamp}.pdf`
FileName(homeownerName, timestamp) ==
    <<"G", "a", "t", "e", "s", "_", "T", "u", "r", "n", "I", "n", "_">>
        \o homeownerName \o <<"_">> \o NumToStr(timestamp) \o <<".", "p", "d", "f">>

\* process.env.BASE_URL || `http://localhost:${PORT}`
PORT == 10000
BaseUrl(e) ==
    IF e.BASE_URL # <<>> THEN e.BASE_URL
    ELSE <<"h", "t", "t", "p", ":", "/", "/", "l", "o", "c", "a", "l", "h", "o", "s", "t", ":">>
            \o NumToStr(PORT)

\* `${baseUrl}/uploads/${fileName}`
PdfUrl(e, fileName) == BaseUrl(e) \o <<"/", "u", "p", "l", "o", "a", "d", "s", "/">> \o fileName

\* the configurations of the service: ENABLE_EMAIL, NOTIFICATION_EMAIL, BASE_URL
Envs ==
    { [ENABLE_EMAIL |-> FALSE, NOTIFICATION_EMAIL |-> <<>>, BASE_URL |-> <<>>],
      [ENABLE_EMAIL |-> TRUE, NOTIFICATION_EMAIL |-> <<>>, BASE_URL |-> <<>>],
      [ENABLE_EMAIL |-> TRUE, NOTIFICATION_EMAIL |-> <<"o", "p", "s", "@", "x">>,
       BASE_URL |-> <<"h", "t", "t", "p", "s", ":", "/", "/", "p", "d", "f", ".", "x">>] }

\* the request bodies, as body-parser hands them to the handler
BodyFields ==
    Obj(<< <<sHomeownerName, Str(sBo)>>, <<sHomeownerEmail, Str(sAl)>> >>)
BodyJsonName ==
    Obj(<< <<sRawRequest,
             Str(<<"{", "\"", "q", "1", "_", "n", "a", "m", "e", "\"", ":", "{", "\"", "f",
                   "i", "r", "s", "t", "\"", ":", "\"", "J", "a", "n", "e", "\"", ",", "\"",
                   "l", "a", "s", "t", "\"", ":", "\"", "D", "o", "e", "\"", "}", ",", "\"",
                   "q", "3", "_", "e", "m", "a", "i", "l", "\"", ":", "\"", "A", "l", "\"",
                   "}">>)>> >>)
BodyJsonOBrien ==
    Obj(<< <<sRawRequest,
             Str(<<"{", " ", "\"", "q", "1", "_", "n", "a", "m", "e", "\"", ":", " ", "\"",
                   "O", "'", "B", "r", "i", "e", "n", " ", "9", "9", "!", "\"", ",", " ",
                   "\"", "f", "o", "r", "m", "I", "D", "\"", ":", " ", "7", " ", "}">>)>> >>)
BodyJsonBang ==
    Obj(<< <<sRawRequest,
             Str(<<"{", "\"", "q", "1", "_", "n", "a", "m", "e", "\"", ":", "\"", "!", "!",
                   "!", "\"", "}">>)>> >>)
BodyJsonEmptyName ==
    Obj(<< <<sRawRequest,
             Str(<<"{", "\"", "q", "1", "_", "n", "a", "m", "e", "\"", ":", "\"", "\"", ",",
                   "\"", "q", "2", "_", "f", "u", "l", "l", "N", "a", "m", "e", "\"", ":",
                   "{", "\"", "l", "a", "s", "t", "\"", ":", "\"", "D", "o", "e", "\"", "}",
                   "}">>)>> >>)
BodyJsonNumberName ==
    Obj(<< <<sRawRequest,
             Str(<<"{", "\"", "q", "1", "_", "n", "a", "m", "e", "\"", ":", "7", "}">>)>> >>)
BodyJsonNull ==
    Obj(<< <<sRawRequest, Str(<<"n", "u", "l", "l">>)>> >>)
BodyJsonArray ==
    Obj(<< <<sRawRequest, Str(<<"[", "t", "r", "u", "e", ",", "\"", "A", "l", "\"", "]">>)>> >>)
BodyCutJson ==
    Obj(<< <<sRawRequest,
             Str(<<"{", "\"", "q", "1", "_", "n", "a", "m", "e", "\"", ":", "\"", "A", "l",
                   "\"">>)>> >>)
BodyNotJson ==
    Obj(<< <<sRawRequest, Str(<<"A", "l", "=", "1">>)>> >>)
BodyObject ==
    Obj(<< <<sRawRequest, Obj(<< <<kName, JaneOnly>>, <<kEmail, Str(sAl)>> >>)>>,
           <<<<"s", "u", "b", "m", "i", "s", "s", "i", "o", "n", "I", "D">>,
             Str(<<"5">>)>> >>)

Bodies ==
    { Obj(<<>>), BodyFields, BodyJsonName, BodyJsonOBrien, BodyJsonBang,
      BodyJsonEmptyName, BodyJsonNumberName, BodyJsonNull, BodyJsonArray,
      BodyCutJson, BodyNotJson, BodyObject }

\* the slip of a statement that throws after the success response: the catch
\* block answers a second time
SucceedThenThrow(q) ==
    [q EXCEPT !.pc = "done",
              !.error = "after response",
              !.res = [status |-> 500,
                       message |-> "Error generating PDF: after response"],
              !.replies = @ + 2]

\* res.status(200).send("PDF generated successfully")
Succeed(q) ==
    [q EXCEPT !.pc = "done",
              !.res = [status |-> 200, message |-> "PDF generated successfully"],
              !.replies = @ + 1]

\* the slip of a catch block that answers as on success
SucceedAnyway(q, error) == Succeed([q EXCEPT !.error = error])

\* the slip of a catch block that logs the error and sends nothing
FailSilently(q, error) == [q EXCEPT !.pc = "done", !.error = error]

\* the catch block: res.status(500).send('Error generating PDF: ' + error.message)
Fail(q, error) ==
    [q EXCEPT !.pc = "done",
              !.error = error,
              !.res = [status |-> 500, message |-> "Error generating PDF: " \o error],
              !.replies = @ + 1]

\* the slip of a record kept in a variable of the module, which the request
\* that arrived last has overwritten
RenderShared(rec) ==
    <<ResolveFields(IF req["r2"].pc # "idle" THEN req["r2"].rec ELSE rec)>>

\* the bytes html-pdf renders from the record: the contact block of the template
Render(rec) == <<ResolveFields(rec)>>

\* the handler from its start to `await generatePDF(extractedData)`
Receive(r, body) ==
    /\ req[r].pc = "idle"
    /\ LET formData == Unwrap(body)
           got == [req[r] EXCEPT !.body = body, !.formData = formData]
       IN  req' = [req EXCEPT ![r] =
                IF ~Readable(formData)
                THEN Fail(got, "Cannot convert undefined or null to object")
                ELSE LET out == extractFormFields(formData)
                     IN  IF out.threw
                         THEN Fail(got, "Cannot read properties of null")
                         ELSE [got EXCEPT !.pc = "rendering", !.rec = out.rec]]
    /\ UNCHANGED <<files, now, env, sent, gVars, nVars, xVars>>

\* toBuffer calls back with an error: generatePDF rejects
RenderFails(r) ==
    /\ req[r].pc = "rendering"
    /\ req' = [req EXCEPT ![r] = Fail(@, "html-pdf: render failed")]
    /\ UNCHANGED <<files, now, env, sent, gVars, nVars, xVars>>

\* toBuffer calls back with the buffer: the handler from the file name to
\* `await sendEmailNotification(...)` or to the response; written tells
\* whether fs.writeFileSync returns or throws
RenderDone(r, written) ==
    /\ req[r].pc = "rendering"
    /\ LET q == req[r]
           name == Lookup(q.rec, sHomeownerName)
           homeownerName == IF Truthy(name) THEN Sanitize(name.s)
                            ELSE <<"T", "u", "r", "n", "I", "n">>
           fileName == FileName(homeownerName, now)
           pdfUrl == PdfUrl(env, fileName)
           pdfBuffer == Render(q.rec)
           rendered == [q EXCEPT !.buffer = pdfBuffer, !.timestamp = now]
           saved == [rendered EXCEPT !.fileName = fileName, !.pdfUrl = pdfUrl]
       IN  IF Truthy(name) /\ name.t # "string"
           THEN /\ req' = [req EXCEPT ![r] =
                              Fail(rendered, "replace is not a function")]
                /\ UNCHANGED <<files, sent>>
           ELSE IF ~written
           THEN /\ req' = [req EXCEPT ![r] =
                              Fail([rendered EXCEPT !.fileName = fileName],
                                   "ENOSPC: write failed")]
                /\ UNCHANGED <<files, sent>>
           ELSE /\ files' = Put(files, fileName,
                                [content |-> pdfBuffer, mtime |-> now, by |-> r])
                /\ IF env.ENABLE_EMAIL /\ Truthy(Lookup(q.rec, sHomeownerEmail))
                   THEN /\ req' = [req EXCEPT ![r] = [saved EXCEPT !.pc = "notifying"]]
                        /\ sent' = Append(sent,
                              [by |-> r,
                               to |-> IF env.NOTIFICATION_EMAIL # <<>>
                                      THEN Str(env.NOTIFICATION_EMAIL)
                                      ELSE Lookup(q.rec, sHomeownerEmail),
                               pdfUrl |-> pdfUrl,
                               filename |-> fileName,
                               content |-> pdfBuffer])
                   ELSE /\ req' = [req EXCEPT ![r] = Succeed(saved)]
                        /\ UNCHANGED sent
    /\ UNCHANGED <<now, env, gVars, nVars, xVars>>

\* transporter.sendMail settles: the handler from there to its response
NotifyDone(r, delivered) ==
    /\ req[r].pc = "notifying"
    /\ req' = [req EXCEPT ![r] =
                  IF delivered THEN Succeed(@) ELSE Fail(@, "SMTP: send failed")]
    /\ UNCHANGED <<files, now, env, sent, gVars, nVars, xVars>>

\* a millisecond passes
Tick ==
    /\ now < MaxClock
    /\ now' = now + 1
    /\ UNCHANGED <<req, files, env, sent, gVars, nVars, xVars>>

Init ==
    /\ req = [r \in Reqs |-> IdleReq]
    /\ files = EmptyRecord
    /\ now = 0
    /\ env \in Envs
    /\ sent = <<>>
    /\ gIdle
    /\ nIdle
    /\ xIdle

Next ==
    \/ \E r \in Reqs, body \in Bodies : Receive(r, body)
    \/ \E r \in Reqs : RenderFails(r)
    \/ \E r \in Reqs, written \in BOOLEAN : RenderDone(r, written)
    \/ \E r \in Reqs, delivered \in BOOLEAN : NotifyDone(r, delivered)
    \/ Tick

Spec == Init /\ [][Next]_vars

---------------------------------------------------------------------------

\* the place of the first candidate whose value is present
FirstQualifying(data, fieldOptions) ==
    {i \in 1..Len(fieldOptions) :
        /\ Qualifies(Lookup(data, fieldOptions[i]))
        /\ \A j \in 1..(i - 1) : ~Qualifies(Lookup(data, fieldOptions[j]))}

(* C1: getFieldValue returns data[k] for the first candidate k, in list    *)
(* order, whose value is not undefined, not null and not ''; with no such  *)
(* candidate it returns the default.  false and 0 count as present.        *)
C1_FirstPresentCandidateWins ==
    gDone =>
        /\ \A i \in FirstQualifying(gData, gOptions) :
              gResult = Lookup(gData, gOptions[i])
        /\ (FirstQualifying(gData, gOptions) = {}) => gResult = gDefault

\* a skipped null, then false found under the second candidate
C1_Witness ==
    /\ gDone
    /\ Len(gOptions) >= 2
    /\ Lookup(gData, gOptions[1]) = Null
    /\ Lookup(gData, gOptions[2]) = Bool(FALSE)
    /\ gResult = Bool(FALSE)
    /\ gDefault # Bool(FALSE)

---------------------------------------------------------------------------
(* What a raw submission holds for a contact field                         *)

Range(s) == {s[i] : i \in 1..Len(s)}

\* the branch of extractFormFields that sets a field
FieldBranch(f) ==
    CASE f = "homeownerName" -> "name"
      [] f = "homeownerEmail" -> "email"
      [] f = "homeownerPhone" -> "phone"
      [] OTHER -> f

\* the canonical label of a field in the record
FieldLabel(f) ==
    CASE f = "projectManager" -> sProjectManager
      [] f = "pmEmail" -> sPMEmail
      [] f = "homeownerName" -> sHomeownerName
      [] f = "homeownerPhone" -> sHomeownerPhoneNumber
      [] f = "homeownerEmail" -> sHomeownerEmail
      [] f = "projectAddress" -> sProjectAddress

\* the record entries one iteration over key writes that field f is read from
Written(key, f) ==
    ({key, CleanKey(key)}
        \cup (IF Branch(key) = FieldBranch(f) THEN {FieldLabel(f)} ELSE {})
        \cup (IF Branch(key) = "email" /\ f = "homeownerEmail"
              THEN {sHomeownerEmailPlease} ELSE {})
        \cup (IF Branch(key) = "projectManager" /\ f = "projectManager"
              THEN {sprojectManager} ELSE {}))
    \cap Range(FieldOptions(f))

\* key can supply field f
Supplies(key, f) == Written(key, f) # {}

\* the place in f's candidate list that key fills
Rank(key, f) ==
    CHOOSE i \in 1..Len(FieldOptions(f)) :
        /\ FieldOptions(f)[i] \in Written(key, f)
        /\ \A j \in 1..(i - 1) : FieldOptions(f)[j] \notin Written(key, f)

FormKeys == ForInKeys(nForm)
Extracted == nPc \in {"extracted", "resolved"}

\* the keys of the submission that supply f with a non-empty string
Suppliers(f) ==
    {k \in Range(FormKeys) :
        Supplies(k, f) /\ Prop(nForm, k).t = "string" /\ Prop(nForm, k).s # <<>>}

\* the submission with its keys in another order
Reordered(p) == Obj([i \in 1..Len(nForm.o) |-> nForm.o[p[i]]])
Orders ==
    {p \in [1..Len(nForm.o) -> 1..Len(nForm.o)] :
        \A i, j \in 1..Len(nForm.o) : i # j => p[i] # p[j]}

---------------------------------------------------------------------------
(* C2: when two or more raw keys supply a field with non-empty values, the *)
(* value resolved by extractFormFields and getFieldValue is that of the    *)
(* earliest-listed candidate, and is the same for every order of the keys  *)
(* in the submission.                                                      *)

C2_ResolutionIgnoresKeyOrder ==
    (nPc = "resolved" /\ nForm.t = "object") =>
        \A f \in Fields :
            Cardinality(Suppliers(f)) >= 2 =>
                /\ \A p \in Orders :
                      ResolveFields(extractFormFields(Reordered(p)).rec)[f] = nFields[f]
                /\ \A k \in Suppliers(f) :
                      (\A x \in Suppliers(f) \ {k} : Rank(k, f) < Rank(x, f))
                          => nFields[f] = Prop(nForm, k)

---------------------------------------------------------------------------

Lacks(f) == \A k \in Range(FormKeys) : ~Supplies(k, f)

DocumentedDefault(f) ==
    CASE f = "projectManager" -> Str(sProjectManager)
      [] f = "homeownerName" ->
            Str(<<"H", "o", "m", "e", "o", "w", "n", "e", "r">>)
      [] OTHER -> Str(<<>>)

(* C3 as stated: for a submission with no key able to supply a contact     *)
(* field, the record returned by extractFormFields holds the field with    *)
(* its documented default.                                                 *)
C3_RecordHoldsDefault ==
    (Extracted /\ Len(FormKeys) >= 1) =>
        \A f \in Fields :
            Lacks(f) => Lookup(nOut.rec, FieldLabel(f)) = DocumentedDefault(f)

(* C3 as amended: for such a submission the record returned by             *)
(* extractFormFields has no entry for the field, and the value that        *)
(* getFieldValue resolves from the record with the field's candidate list  *)
(* is the documented default, never undefined or null.                     *)

C3_ResolvedValueIsDefault ==
    (nPc = "resolved") =>
        \A f \in Fields :
            Lacks(f) =>
                /\ FieldLabel(f) \notin DOMAIN nOut.rec
                /\ nFields[f] = DocumentedDefault(f)
                /\ nFields[f].t \notin {"undefined", "null"}

\* a submission with an e-mail key and nothing for the homeowner's name
C3_Witness ==
    /\ nPc = "resolved"
    /\ kEmail \in Range(FormKeys)
    /\ Lacks("homeownerName")
    /\ nFields["homeownerName"] = Str(<<"H", "o", "m", "e", "o", "w", "n", "e", "r">>)
    /\ nFields["homeownerEmail"] = Str(sAl)

---------------------------------------------------------------------------

\* the record after the iteration over the i-th key
After(i) == IF i = Len(FormKeys) THEN nOut.rec ELSE ExtractPrefix(nForm, i).rec

\* a part of an object: its string, or '' when missing or empty
PartOf(value, name) ==
    IF Qualifies(Prop(value, name)) THEN Prop(value, name).s ELSE <<>>

HasNameParts(value) ==
    /\ value.t = "object"
    /\ PartOf(value, sFirst) # <<>> \/ PartOf(value, sLast) # <<>>

(* C4: a name key whose value is an object with a first and/or last part   *)
(* sets 'Homeowner Name' to first + ' ' + last trimmed (no stray space for *)
(* a first-only or last-only object), and 'Homeowner First Name' and       *)
(* 'Homeowner Last Name' to the part or ''; {first:'Jane', last:'Doe'}     *)
(* gives 'Jane Doe', 'Jane', 'Doe'.                                        *)
C4_NameObject ==
    Extracted =>
        \A i \in 1..Len(FormKeys) :
            LET value == Prop(nForm, FormKeys[i])
                first == PartOf(value, sFirst)
                last == PartOf(value, sLast)
                name == Lookup(After(i), sHomeownerName)
            IN  (Branch(FormKeys[i]) = "name" /\ HasNameParts(value)) =>
                    /\ name = Str(IF first = <<>> THEN last
                                  ELSE IF last = <<>> THEN first
                                  ELSE first \o <<" ">> \o last)
                    /\ name.s[1] # " " /\ name.s[Len(name.s)] # " "
                    /\ Lookup(After(i), sHomeownerFirstName) = Str(first)
                    /\ Lookup(After(i), sHomeownerLastName) = Str(last)
                    /\ value = JaneDoe =>
                          /\ name = Str(<<"J", "a", "n", "e", " ", "D", "o", "e">>)
                          /\ Lookup(After(i), sHomeownerFirstName) = Str(sJane)
                          /\ Lookup(After(i), sHomeownerLastName) = Str(sDoe)

\* a first-only object came last: the name is 'Jane', with no space after it
C4_Witness ==
    /\ Extracted
    /\ Len(FormKeys) = 2
    /\ Prop(nForm, FormKeys[1]) = JaneDoe
    /\ FormKeys[2] = kFullName
    /\ Prop(nForm, kFullName) = JaneOnly
    /\ Lookup(nOut.rec, sHomeownerName) = Str(sJane)
    /\ Lookup(nOut.rec, sHomeownerLastName) = Str(<<>>)

---------------------------------------------------------------------------

EndsWith(s, p) == Len(p) <= Len(s) /\ SubSeq(s, Len(s) - Len(p) + 1, Len(s)) = p

\* the populated parts of an address object, in the fixed order
RECURSIVE PopulatedFrom(_, _)
PopulatedFrom(value, i) ==
    IF i > Len(AddressPartNames) THEN <<>>
    ELSE IF PartOf(value, AddressPartNames[i]) # <<>>
         THEN <<PartOf(value, AddressPartNames[i])>> \o PopulatedFrom(value, i + 1)
         ELSE PopulatedFrom(value, i + 1)

\* the parts of s between the separators ', '
RECURSIVE SplitAt(_, _)
SplitAt(s, from) ==
    LET cuts == {i \in from..(Len(s) - 1) : s[i] = "," /\ s[i + 1] = " "}
    IN  IF cuts = {} THEN <<SubSeq(s, from, Len(s))>>
        ELSE LET c == CHOOSE i \in cuts : \A j \in cuts : i <= j
             IN  <<SubSeq(s, from, c - 1)>> \o SplitAt(s, c + 2)

(* C5: an address key whose value is an object sets 'Project Address' to   *)
(* the non-empty parts among addr_line1, addr_line2, city, state, postal,  *)
(* in that order, joined by ', ', with no leading, trailing or doubled     *)
(* separator: city and state alone give '<city>, <state>', no part ''.     *)
C5_AddressObject ==
    Extracted =>
        \A i \in 1..Len(FormKeys) :
            LET value == Prop(nForm, FormKeys[i])
                address == Lookup(After(i), sProjectAddress)
                parts == PopulatedFrom(value, 1)
            IN  (Branch(FormKeys[i]) = "address" /\ value.t = "object") =>
                    /\ address.t = "string"
                    /\ parts = <<>> => address.s = <<>>
                    /\ parts # <<>> => SplitAt(address.s, 1) = parts
                    /\ ~StartsWith(address.s, <<",", " ">>)
                    /\ ~EndsWith(address.s, <<",", " ">>)
                    /\ ~Includes(address.s, <<",", " ", ",", " ">>)
                    /\ value = AddressObject({3, 4}) =>
                          address.s = <<"E", "l", "y", ",", " ", "N", "V">>

\* only city and state are populated
C5_Witness ==
    /\ Extracted
    /\ FormKeys = <<kAddress>>
    /\ Prop(nForm, kAddress) = AddressObject({3, 4})
    /\ Lookup(nOut.rec, sProjectAddress) = Str(<<"E", "l", "y", ",", " ", "N", "V">>)

---------------------------------------------------------------------------

CanonicalLabels ==
    { sHomeownerName, sHomeownerFirstName, sHomeownerLastName, sHomeownerEmail,
      sHomeownerEmailPlease, sHomeownerPhoneNumber, sProjectAddress,
      sProjectManager, sprojectManager, sPMEmail }

\* what the if / else-if chain sets in the i-th iteration
ResolvedAt(i) == ResolveStep(EmptyRecord, FormKeys[i], Prop(nForm, FormKeys[i])).rec

(* C6: a canonical field set by the candidate resolution is never          *)
(* overwritten by the verbatim or de-prefixed copy of a raw key: its final *)
(* value in the record is the value last resolved for it.                  *)
C6_ResolvedFieldNotOverwritten ==
    Extracted =>
        \A c \in CanonicalLabels :
            LET sets == {i \in 1..Len(FormKeys) : c \in DOMAIN ResolvedAt(i)}
            IN  sets # {} =>
                    LET last == CHOOSE i \in sets : \A j \in sets : j <= i
                        resolved == ResolvedAt(last)[c]
                    IN  (resolved.t = "string" /\ resolved.s # <<>>) =>
                            Lookup(nOut.rec, c) = resolved

---------------------------------------------------------------------------
(* C7: extractFormFields is total: for an object with keys of any kind of  *)
(* value, an empty object, a plain string, null, it returns a record and   *)
(* never throws.                                                           *)

C7_ExtractNeverThrows ==
    /\ nPc # "threw"
    /\ ~nOut.threw
    /\ nPc # "start" => Range(FormKeys) \subseteq DOMAIN nOut.rec

\* null under a name key, where the guard `value &&` decides
C7_Witness ==
    /\ Extracted
    /\ kName \in Range(FormKeys)
    /\ Prop(nForm, kName) = Null
    /\ Lookup(nOut.rec, sHomeownerName) = Str(<<>>)

---------------------------------------------------------------------------

\* the handler has taken up request r
Arrived(r) == req[r].pc # "idle"

(* C8: the handler takes the field set from the request body in three      *)
(* shapes: body.rawRequest a JSON string gives its parsed value, an        *)
(* already-parsed object gives that object, a body with no rawRequest      *)
(* gives the body itself; the record is extracted from that field set.     *)
C8_ThreeEnvelopeShapes ==
    \A r \in Reqs :
        LET q == req[r]
            raw == Prop(q.body, sRawRequest)
        IN  Arrived(r) =>
                /\ (raw.t = "string" /\ JSONparse(raw.s).ok) =>
                        q.formData = JSONparse(raw.s).v
                /\ raw.t = "object" => q.formData = raw
                /\ raw.t = "undefined" => q.formData = q.body
                /\ q.pc = "rendering" => q.rec = extractFormFields(q.formData).rec

---------------------------------------------------------------------------

\* body.rawRequest is a string that JSON.parse rejects
InvalidJson(body) ==
    LET raw == Prop(body, sRawRequest)
    IN  raw.t = "string" /\ raw.s # <<>> /\ ~JSONparse(raw.s).ok

(* C9: when body.rawRequest is a string that is not valid JSON the handler *)
(* takes the raw string as the field set, extracts the record from it and  *)
(* goes on to render and save: the request ends with the success response  *)
(* and its file saved unless the renderer or the file system fails.        *)
C9_InvalidJsonStillSucceeds ==
    \A r \in Reqs :
        LET q == req[r]
            raw == Prop(q.body, sRawRequest)
        IN  (Arrived(r) /\ InvalidJson(q.body)) =>
                /\ q.formData = raw
                /\ DOMAIN q.rec = {NumToStr(i - 1) : i \in 1..Len(raw.s)}
                /\ \A i \in 1..Len(raw.s) :
                      Lookup(q.rec, NumToStr(i - 1)) = Str(<<raw.s[i]>>)
                /\ q.pc \in {"rendering", "done"}
                /\ q.pc = "done" =>
                      \/ /\ q.res.status = 500
                         /\ q.error \in {"html-pdf: render failed", "ENOSPC: write failed"}
                      \/ /\ q.res = [status |-> 200, message |-> "PDF generated successfully"]
                         /\ q.error = ""
                         /\ q.buffer = Render(q.rec)
                         /\ q.fileName \in DOMAIN files

\* a cut-off JSON text was answered with the success response
C9_Witness ==
    \E r \in Reqs :
        /\ req[r].body = BodyCutJson
        /\ req[r].formData.t = "string"
        /\ req[r].pc = "done"
        /\ req[r].res.status = 200
        /\ req[r].fileName \in DOMAIN files

---------------------------------------------------------------------------

IsAlnum(c) == c \in AlnumChars

sGatesTurnIn == <<"G", "a", "t", "e", "s", "_", "T", "u", "r", "n", "I", "n", "_">>
sOBrien99Bang == <<"O", "'", "B", "r", "i", "e", "n", " ", "9", "9", "!">>
sOBrien99 == <<"O", "B", "r", "i", "e", "n", "9", "9">>

\* what follows the name segment: '_' + T + '.pdf'
Suffix(timestamp) == <<"_">> \o NumToStr(timestamp) \o <<".", "p", "d", "f">>

\* the name segment of a file name
Segment(fileName, timestamp) ==
    SubSeq(fileName, Len(sGatesTurnIn) + 1, Len(fileName) - Len(Suffix(timestamp)))

(* C10: a saved file is named 'Gates_TurnIn_' + S + '_' + T + '.pdf' with  *)
(* T the millisecond timestamp; S holds only characters of [A-Za-z0-9],    *)
(* and for a record with a 'Homeowner Name' it is that name with every     *)
(* other character removed and the rest kept in order: "O'Brien 99!"       *)
(* gives 'OBrien99'.                                                       *)
C10_FileNameSanitized ==
    \A fn \in DOMAIN files :
        LET q == req[files[fn].by]
            name == Lookup(q.rec, sHomeownerName)
            S == Segment(fn, q.timestamp)
        IN  /\ q.fileName = fn
            /\ q.timestamp = files[fn].mtime
            /\ fn = sGatesTurnIn \o S \o Suffix(q.timestamp)
            /\ \A i \in 1..Len(S) : IsAlnum(S[i])
            /\ Truthy(name) => S = SelectSeq(name.s, IsAlnum)
            /\ name = Str(sOBrien99Bang) => S = sOBrien99

\* the file of the submission of O'Brien 99!, saved at millisecond 1
C10_Witness ==
    \E r \in Reqs :
        /\ req[r].body = BodyJsonOBrien
        /\ Lookup(req[r].rec, sHomeownerName) = Str(sOBrien99Bang)
        /\ req[r].timestamp = 1
        /\ req[r].fileName = sGatesTurnIn \o sOBrien99 \o <<"_", "1", ".", "p", "d", "f">>
        /\ req[r].fileName \in DOMAIN files

---------------------------------------------------------------------------

sTurnIn == <<"T", "u", "r", "n", "I", "n">>

(* C11: the name segment of a saved file's name is never empty: when the   *)
(* homeowner name is absent, empty, or has no character of [A-Za-z0-9],    *)
(* the segment is the fallback 'TurnIn'.                                   *)
C11_SegmentNeverEmpty ==
    \A fn \in DOMAIN files :
        LET q == req[files[fn].by]
            name == Lookup(q.rec, sHomeownerName)
            S == Segment(fn, q.timestamp)
        IN  /\ S # <<>>
            /\ (~Truthy(name) \/ SelectSeq(name.s, IsAlnum) = <<>>) => S = sTurnIn

---------------------------------------------------------------------------

\* request r has saved its file: the handler is past fs.writeFileSync
Saved(r) == req[r].pdfUrl # <<>>

\* the notifier calls made for request r
Notices(r) == {i \in 1..Len(sent) : sent[i].by = r}

(* C12: a success response is sent only after the buffer has been written  *)
(* to the uploads directory under the derived file name: a request is      *)
(* answered 200 only in a step that leaves its file saved, and no request  *)
(* that has not saved its file has a success response.                     *)
C12_SuccessOnlyAfterWrite ==
    /\ [](\A r \in Reqs :
            req[r].res.status = 200 =>
                /\ Saved(r)
                /\ req[r].buffer = <<ResolveFields(req[r].rec)>>
                /\ req[r].fileName \in DOMAIN files)
    /\ [][\A r \in Reqs :
            (req[r].res.status # 200 /\ req'[r].res.status = 200) =>
                /\ req'[r].fileName \in DOMAIN files'
                /\ \/ files'[req'[r].fileName].content = req'[r].buffer
                   \/ files'[req'[r].fileName].by # r]_vars

\* a request answered 200 after its notification, its own file in place
C12_Witness ==
    \E r \in Reqs :
        /\ req[r].res.status = 200
        /\ Notices(r) # {}
        /\ files[req[r].fileName].by = r
        /\ files[req[r].fileName].content = req[r].buffer

---------------------------------------------------------------------------

sRenderFailed == "html-pdf: render failed"
sWriteFailed == "ENOSPC: write failed"

(* C13: when generatePDF rejects or the file write throws, the handler     *)
(* sends one 500 response that carries the error message and takes no      *)
(* further step: after a render failure the request has written no file    *)
(* and the notifier is not called; after a write failure the notifier is   *)
(* not called.                                                             *)
C13_FailureAbortsTheRest ==
    \A r \in Reqs :
        LET q == req[r]
        IN  q.error \in {sRenderFailed, sWriteFailed} =>
                /\ q.pc = "done"
                /\ q.replies = 1
                /\ q.res = [status |-> 500, message |-> "Error generating PDF: " \o q.error]
                /\ Notices(r) = {}
                /\ ~Saved(r)
                /\ \A fn \in DOMAIN files : files[fn].by # r
                /\ q.error = sRenderFailed => q.fileName = NoFile

\* one request failed to render while the other one saved its file
C13_Witness ==
    \E r, s \in Reqs :
        /\ req[r].error = sRenderFailed
        /\ req[r].res.status = 500
        /\ Saved(s)
        /\ DOMAIN files # {}

---------------------------------------------------------------------------

sSendFailed == "SMTP: send failed"

(* C14: a failure of the notifier does not fail the request: the file      *)
(* stays in the uploads directory and the handler answers with the success *)
(* response, never with the 500 response.                                  *)
C14_NotifierFailureKeepsSuccess ==
    \A r \in Reqs :
        (req[r].pc = "done" /\ Notices(r) # {}) =>
            /\ req[r].fileName \in DOMAIN files
            /\ req[r].res.status = 200

---------------------------------------------------------------------------

\* the response holds the URL
Carries(res, url) == "pdfUrl" \in DOMAIN res /\ res.pdfUrl = url

(* C15: every success response carries the public URL of the file, and     *)
(* that URL is the base URL (BASE_URL, else http://localhost:<PORT>) +     *)
(* '/uploads/' + the name under which the request's buffer was written.    *)
C15_SuccessCarriesUrl ==
    \A r \in Reqs :
        req[r].res.status = 200 =>
            /\ req[r].pdfUrl = PdfUrl(env, req[r].fileName)
            /\ req[r].fileName \in DOMAIN files
            /\ Carries(req[r].res, req[r].pdfUrl)

---------------------------------------------------------------------------

\* process.env.NOTIFICATION_EMAIL || data['Homeowner Email']
Recipient(r) ==
    IF env.NOTIFICATION_EMAIL # <<>> THEN Str(env.NOTIFICATION_EMAIL)
    ELSE Lookup(req[r].rec, sHomeownerEmail)

(* C16: after the file is written the notifier is called exactly once,     *)
(* with the record's URL and buffer, if and only if ENABLE_EMAIL is 'true' *)
(* and a recipient resolves (NOTIFICATION_EMAIL when set, else the         *)
(* record's homeowner email); otherwise it is never called.                *)
C16_NotifiedIffRecipient ==
    \A r \in Reqs :
        IF Saved(r) /\ env.ENABLE_EMAIL /\ Truthy(Recipient(r))
        THEN /\ Cardinality(Notices(r)) = 1
             /\ \A i \in Notices(r) :
                   /\ sent[i].to = Recipient(r)
                   /\ sent[i].pdfUrl = req[r].pdfUrl
                   /\ sent[i].content = req[r].buffer
        ELSE Notices(r) = {}

---------------------------------------------------------------------------

(* C17: two requests with identical payloads produce two distinct file     *)
(* names and two separate files; no request overwrites the file of         *)
(* another.                                                                *)
C17_DistinctFiles ==
    \A r, s \in Reqs :
        (r # s /\ Saved(r) /\ Saved(s) /\ req[r].body = req[s].body) =>
            /\ req[r].fileName # req[s].fileName
            /\ \E fn \in DOMAIN files : files[fn].by = r
            /\ \E fn \in DOMAIN files : files[fn].by = s

---------------------------------------------------------------------------

\* the handler's constants of request r that hold a value in this state
Locals(r) ==
    LET q == req[r]
    IN  [body |-> q.body, formData |-> q.formData, rec |-> q.rec]
            @@ (IF q.buffer # <<>> THEN [buffer |-> q.buffer, timestamp |-> q.timestamp]
                ELSE <<>>)
            @@ (IF q.fileName # NoFile THEN [fileName |-> q.fileName] ELSE <<>>)
            @@ (IF Saved(r) THEN [pdfUrl |-> q.pdfUrl] ELSE <<>>)

---------------------------------------------------------------------------

(* C19: no payload shape alone makes the webhook fail: for every request   *)
(* body, when the renderer and the file write succeed the handler answers  *)
(* with the success response, not the 500 response.                        *)
C19_NoPayloadFails ==
    \A r \in Reqs :
        req[r].res.status = 500 =>
            req[r].error \in {sRenderFailed, sWriteFailed, sSendFailed}

---------------------------------------------------------------------------

\* the canonical labels that the branch of a key sets to value || ''
LabelsOf(branch) ==
    CASE branch = "name" -> {sHomeownerName}
      [] branch = "email" -> {sHomeownerEmail, sHomeownerEmailPlease}
      [] branch = "phone" -> {sHomeownerPhoneNumber}
      [] branch = "projectManager" -> {sProjectManager}
      [] branch = "pmEmail" -> {sPMEmail}
      [] OTHER -> {}

(* C20: when a candidate key holds an object of an unrecognized shape (a   *)
(* name key whose object has neither first nor last; an object under an    *)
(* email, phone, project-manager or PM-email key), extractFormFields sets  *)
(* the canonical field to that same object, or to '' when the value is     *)
(* falsy, and does not fail.                                               *)
C20_UnknownShapeKept ==
    /\ nPc # "threw"
    /\ Extracted =>
        \A i \in 1..Len(FormKeys) :
            LET value == Prop(nForm, FormKeys[i])
                branch == Branch(FormKeys[i])
            IN  ((value.t = "object" \/ ~Truthy(value))
                    /\ ~(branch = "name" /\ HasNameParts(value))) =>
                    \A c \in LabelsOf(branch) :
                        Lookup(After(i), c) = IF Truthy(value) THEN value ELSE Str(<<>>)

\* an object of unknown shape under a phone key, null under a name key
C20_Witness ==
    /\ Extracted
    /\ FormKeys = <<kPhone, kName>>
    /\ Prop(nForm, kPhone) = OddObject
    /\ Prop(nForm, kName) = Null
    /\ Lookup(nOut.rec, sHomeownerPhoneNumber) = OddObject
    /\ Lookup(nOut.rec, sHomeownerName) = Str(<<>>)

---------------------------------------------------------------------------

(* C21: for every raw key k with value v, the record extractFormFields     *)
(* returns maps k to v unchanged and, when k starts with the index prefix  *)
(* q<digits>_, maps k without that prefix to v as well; a key without the  *)
(* prefix is copied under its own name only.                               *)
C21_RawKeysCopied ==
    Extracted =>
        \A i \in 1..Len(FormKeys) :
            LET k == FormKeys[i]
                v == Prop(nForm, k)
            IN  /\ Lookup(nOut.rec, k) = v
                /\ CleanKey(k) # k => Lookup(nOut.rec, CleanKey(k)) = v

---------------------------------------------------------------------------

\* the submission holds a key of the email branch
HasEmailKey == \E i \in 1..Len(FormKeys) : Branch(FormKeys[i]) = "email"

(* C28: the homeowner email the document prints (getFieldValue, which      *)
(* tries 'Homeowner Email (PLEASE INCLUDE THIS)' first) equals the one the *)
(* handler notifies (the record's 'Homeowner Email'): the two entries the  *)
(* email branch writes together are equal in the returned record.          *)
C28_PrintedEmailIsNotifiedEmail ==
    LET please == Lookup(nOut.rec, sHomeownerEmailPlease)
        email == Lookup(nOut.rec, sHomeownerEmail)
    IN  /\ (Extracted /\ HasEmailKey /\ please.t = "string" /\ email.t = "string"
                /\ please.s # <<>> /\ email.s # <<>>) =>
              please = email
        /\ (nPc = "resolved" /\ email.t = "string" /\ email.s # <<>>) =>
              nFields["homeownerEmail"] = email

---------------------------------------------------------------------------

\* the renderer callback and the notifier of r have settled
Settled(r) == req[r].pc = "done"

(* C27: every webhook request receives at most one HTTP response on every  *)
(* path of the handler (success, render failure, write failure, notifier   *)
(* failure), exactly one once the renderer callback and the notifier have  *)
(* settled, and never a failure response after a success response.         *)
C27_OneResponse ==
    /\ [](\A r \in Reqs :
            /\ req[r].replies <= 1
            /\ req[r].replies = 1 <=> req[r].res # NoResponse
            /\ Settled(r) => req[r].replies = 1
            /\ req[r].pc \in {"idle", "rendering", "notifying"} => req[r].replies = 0)
    /\ [][\A r \in Reqs :
            /\ req[r].res.status = 200 => req'[r].res = req[r].res
            /\ req[r].replies = 1 => req'[r].replies = 1]_vars

\* both requests wrote their file and called the notifier: one was answered
\* 200 once it settled, the other 500 once it failed, each exactly once
C27_Witness ==
    /\ \A r \in Reqs : Settled(r) /\ req[r].replies = 1
    /\ req["r1"].res.status = 200 /\ req["r1"].pdfUrl # <<>> /\ Len(sent) = 2
    /\ req["r2"].res.status = 500 /\ req["r2"].error = sSendFailed

---------------------------------------------------------------------------
(* GET /pdfs: what an entry of the listing derives from a file's name      *)

sPdf == <<".", "p", "d", "f">>

\* s.indexOf(p), from 1; 0 when p does not occur
IndexOf(s, p) ==
    LET at == {i \in 1..(Len(s) - Len(p) + 1) : SubSeq(s, i, i + Len(p) - 1) = p}
    IN  IF at = {} THEN 0 ELSE CHOOSE i \in at : \A j \in at : i <= j

\* s.replace(p, ''): the first occurrence of the string p is removed
RemoveFirst(s, p) ==
    LET i == IndexOf(s, p)
    IN  IF i = 0 THEN s ELSE SubSeq(s, 1, i - 1) \o SubSeq(s, i + Len(p), Len(s))

\* s.replace(/_.+\.pdf$/, ''): the leftmost '_' that at least one character
\* (no line terminator) and a final '.pdf' follow, and all after it, is removed
RemoveTail(s) ==
    LET at == {i \in 1..Len(s) :
                  /\ s[i] = "_"
                  /\ Len(s) - i >= Len(sPdf) + 1
                  /\ EndsWith(s, sPdf)
                  /\ \A j \in (i + 1)..(Len(s) - Len(sPdf)) : s[j] \notin {"\n", "\r"}}
    IN  IF at = {} THEN s
        ELSE SubSeq(s, 1, (CHOOSE i \in at : \A j \in at : i <= j) - 1)

\* s.split('_').pop(): what follows the last '_', or all of s
LastPart(s) ==
    LET at == {i \in 1..Len(s) : s[i] = "_"}
    IN  IF at = {} THEN s
        ELSE SubSeq(s, (CHOOSE i \in at : \A j \in at : j <= i) + 1, Len(s))

\* parseInt(s) of a string with no sign: the leading digits, or NaN
ParseInt(s) ==
    LET t == Trim(s)
        stop == {i \in 1..Len(t) : t[i] \notin DigitChars}
        n == IF stop = {} THEN Len(t) ELSE (CHOOSE i \in stop : \A j \in stop : i <= j) - 1
    IN  IF n = 0 THEN [valid |-> FALSE, time |-> 0]
        ELSE [valid |-> TRUE, time |-> StrToNat(SubSeq(t, 1, n))]

\* the slip of a listing that strips the prefix only
ListedNameWithTail(file) == RemoveFirst(file, sGatesTurnIn)

\* file.replace('Gates_TurnIn_', '').replace(/_.+\.pdf$/, '')
ListedName(file) == RemoveTail(RemoveFirst(file, sGatesTurnIn))

\* new Date(parseInt(file.split('_').pop().replace('.pdf', ''))): the time
\* value of the date, or an invalid date
ListedDate(file) == ParseInt(RemoveFirst(LastPart(file), sPdf))

---------------------------------------------------------------------------
(* Specification SpecList: the handler names a file, the listing shows it  *)

MaxName == 2
MaxStamp == 12

\* the homeowner names of the record: every string of at most MaxName of
\* these characters, and some longer ones
NameChars == {"a", "Z", "9", "_", "."}
ListedNames ==
    UNION {[1..n -> NameChars] : n \in 0..MaxName}
        \cup {sTurnIn, sOBrien99Bang, sGatesTurnIn, sPdf,
              <<"a", "_", "1", ".", "p", "d", "f">>}

\* the clock readings: the first milliseconds, and one of ten digits
ListedStamps == 0..MaxStamp \cup {1700000000}

InitList ==
    /\ listing = NoListing
    /\ gIdle
    /\ nIdle
    /\ hIdle
    /\ sweep = NoSweep
    /\ served = NoAnswer
    /\ browser = NoBrowser

\* the handler builds the file name from the record's name and the clock
\* (part_000 94-98), and the listing derives the entry of that file
ListFile(name, timestamp) ==
    /\ ~listing.done
    /\ LET homeownerName == IF name # <<>> THEN Sanitize(name) ELSE sTurnIn
           file == FileName(homeownerName, timestamp)
       IN  listing' = [segment |-> homeownerName, timestamp |-> timestamp,
                       file |-> file, fileName |-> ListedName(file),
                       date |-> ListedDate(file), done |-> TRUE]
    /\ UNCHANGED <<gVars, nVars, hVars, sweep, served, browser>>

NextList == \E name \in ListedNames, timestamp \in ListedStamps : ListFile(name, timestamp)

SpecList == InitList /\ [][NextList]_vars

(* C26: from every file name the handler can generate, 'Gates_TurnIn_' + S *)
(* + '_' + T + '.pdf', the listing displays exactly S as the name (also    *)
(* for S = 'TurnIn' and for S empty) and derives the time from exactly T.  *)
C26_ListingRecoversParts ==
    listing.done =>
        /\ listing.file = sGatesTurnIn \o listing.segment \o Suffix(listing.timestamp)
        /\ listing.fileName = listing.segment
        /\ listing.date = [valid |-> TRUE, time |-> listing.timestamp]

\* a name of no alphanumeric character: the empty segment is displayed as it is
C26_Witness ==
    /\ listing.done
    /\ listing.segment = <<>>
    /\ listing.file = <<"G", "a", "t", "e", "s", "_", "T", "u", "r", "n", "I", "n",
                        "_", "_", "7", ".", "p", "d", "f">>
    /\ listing.fileName = <<>>
    /\ listing.date.time = 7

---------------------------------------------------------------------------
(* Specification SpecBrowser: src/app.js, generatePDF with puppeteer       *)

MaxCalls == 4

\* the four statements of the try block, in order
TrySteps == <<"newPage", "generateTemplate", "setContent", "pdf">>

\* the slip of a close that follows the try block with no `finally`: a
\* statement that throws leaves generatePDF at once
ThrowPastClose(b, error) ==
    [b EXCEPT !.pc = "done", !.outcome = error, !.settled = "rejected"]

\* a statement of the try block throws or its promise rejects: control
\* passes to the finally block with the error pending
Throw(b, error) == [b EXCEPT !.pc = "finally", !.outcome = error]

InitBrowser ==
    /\ browser = NoBrowser
    /\ gIdle
    /\ nIdle
    /\ hIdle
    /\ sweep = NoSweep
    /\ served = NoAnswer
    /\ listing = NoListing

\* generatePDF(data) is called: puppeteer.launch is awaited
CallGeneratePDF ==
    /\ browser.pc \in {"idle", "done"}
    /\ browser.calls < MaxCalls
    /\ browser' = [browser EXCEPT !.pc = "launch", !.calls = @ + 1,
                                  !.outcome = "none", !.settled = "none"]
    /\ UNCHANGED <<gVars, nVars, hVars, sweep, served, listing>>

\* puppeteer.launch settles: a browser runs, or generatePDF rejects before
\* the try block with no browser to close
LaunchSettles(launched) ==
    /\ browser.pc = "launch"
    /\ browser' =
          IF launched
          THEN [browser EXCEPT !.pc = TrySteps[1], !.launches = @ + 1, !.open = @ + 1]
          ELSE [browser EXCEPT !.pc = "done", !.outcome = "launch",
                               !.settled = "rejected"]
    /\ UNCHANGED <<gVars, nVars, hVars, sweep, served, listing>>

\* a statement of the try block completes or fails; `return pdfBuffer` after
\* the last one passes to the finally block with the buffer pending
TryStep(done) ==
    /\ \E i \in 1..Len(TrySteps) :
          /\ browser.pc = TrySteps[i]
          /\ browser' =
                IF ~done THEN Throw(browser, TrySteps[i])
                ELSE IF i < Len(TrySteps) THEN [browser EXCEPT !.pc = TrySteps[i + 1]]
                ELSE [browser EXCEPT !.pc = "finally", !.outcome = "buffer"]
    /\ UNCHANGED <<gVars, nVars, hVars, sweep, served, listing>>

\* the finally block calls browser.close() and awaits it
Finally ==
    /\ browser.pc = "finally"
    /\ browser' = [browser EXCEPT !.pc = "closing", !.closes = @ + 1]
    /\ UNCHANGED <<gVars, nVars, hVars, sweep, served, listing>>

\* browser.close() resolves: the process has exited, and generatePDF settles
\* with the pending buffer or error
CloseSettles ==
    /\ browser.pc = "closing"
    /\ browser' = [browser EXCEPT
                      !.pc = "done", !.open = @ - 1,
                      !.settled = IF browser.outcome = "buffer"
                                  THEN "resolved" ELSE "rejected"]
    /\ UNCHANGED <<gVars, nVars, hVars, sweep, served, listing>>

NextBrowser ==
    \/ CallGeneratePDF
    \/ \E launched \in BOOLEAN : LaunchSettles(launched)
    \/ \E done \in BOOLEAN : TryStep(done)
    \/ Finally
    \/ CloseSettles

SpecBrowser == InitBrowser /\ [][NextBrowser]_vars

\* the browser of the call under way has been launched and not yet closed
InTry == browser.pc \in Range(TrySteps) \cup {"finally"}

---------------------------------------------------------------------------
(* GET /uploads/:filename: the path the route looks up and sends           *)

sUploads == <<"u", "p", "l", "o", "a", "d", "s">>
sTemplateGenerator ==
    <<"t", "e", "m", "p", "l", "a", "t", "e", "G", "e", "n", "e", "r", "a", "t", "o", "r",
      ".", "j", "s">>

\* s.split(sep) for a separator of one character
RECURSIVE SplitFrom(_, _)
SplitFrom(s, sep) ==
    LET i == IndexOf(s, <<sep>>)
    IN  IF i = 0 THEN <<s>>
        ELSE <<SubSeq(s, 1, i - 1)>> \o SplitFrom(SubSeq(s, i + 1, Len(s)), sep)

\* path.normalize on segments: '' and '.' are dropped, '..' removes the
\* segment before it
RECURSIVE NormalizeFrom(_, _)
NormalizeFrom(parts, seen) ==
    IF parts = <<>> THEN seen
    ELSE IF Head(parts) \in {<<>>, <<".">>} THEN NormalizeFrom(Tail(parts), seen)
    ELSE IF Head(parts) = <<".", ".">> /\ seen # <<>> /\ seen[Len(seen)] # <<".", ".">>
    THEN NormalizeFrom(Tail(parts), SubSeq(seen, 1, Len(seen) - 1))
    ELSE NormalizeFrom(Tail(parts), Append(seen, Head(parts)))

\* path.join(uploadsDir, filename), as segments below __dirname
PathJoin(filename) == NormalizeFrom(<<sUploads>> \o SplitFrom(filename, "/"), <<>>)

\* the files of __dirname beside uploads/: the module app.js requires
OwnFiles == {<<sTemplateGenerator>>}

\* fs.existsSync(filePath)
ExistsSync(filePath) ==
    \/ filePath \in OwnFiles
    \/ Len(filePath) = 2 /\ filePath[1] = sUploads /\ filePath[2] \in DOMAIN files

\* the route: res.sendFile(filePath), or 404 'File not found'; express.static
\* before it answers alike for a stored name and passes every other request on
GetUpload(filename) ==
    LET filePath == PathJoin(filename)
    IN  IF ExistsSync(filePath)
        THEN [name |-> filename, status |-> 200, path |-> filePath]
        ELSE [name |-> filename, status |-> 404, path |-> <<>>]

---------------------------------------------------------------------------
(* cleanupOldFiles and its timer                                           *)

maxAgeInHours == 24
maxAge == maxAgeInHours * 60 * 60 * 1000
SweepEvery == 12 * 60 * 60 * 1000

\* the slip of `>=` for `>`
ExpiredAtLimit(fileAge) == fileAge >= maxAge

\* the slip of a threshold of days read as hours twice over
ExpiredLate(fileAge) == fileAge > 2 * maxAge

\* if (fileAge > maxAge)
Expired(fileAge) == fileAge > maxAge

\* the directory without the file f
Unlinked(f) == [g \in DOMAIN files \ {f} |-> files[g]]

\* no callback of a sweep is pending
Quiet == sweep.pc = "idle" /\ sweep.stat = {} /\ sweep.unlink = {}

\* the timer of setInterval is due
Due == now > 0 /\ now % SweepEvery = 0 /\ sweep.last # now

---------------------------------------------------------------------------
(* Specification SpecStore: requests, the sweeper, downloads and the clock *)

MaxSweeps == 4

\* the clock passes in halves of the timer's period
ClockStep == SweepEvery \div 2

\* requests arrive and render during the first period of the timer
Arrivals == now <= SweepEvery

StoreBodies == {Obj(<<>>), BodyJsonName}

InitStore ==
    /\ req = [r \in Reqs |-> IdleReq]
    /\ files = EmptyRecord
    /\ now = 0
    /\ env = [ENABLE_EMAIL |-> TRUE, NOTIFICATION_EMAIL |-> <<>>, BASE_URL |-> <<>>]
    /\ sent = <<>>
    /\ sweep = NoSweep
    /\ served = NoAnswer
    /\ browser = NoBrowser
    /\ listing = NoListing
    /\ gIdle
    /\ nIdle

\* the clock passes, once the timer that is due has fired and the callbacks
\* of the sweep have run
TickHours ==
    /\ now + ClockStep <= MaxSweeps * SweepEvery
    /\ Quiet
    /\ ~Due
    /\ now' = now + ClockStep
    /\ UNCHANGED <<req, files, env, sent, sweep, served, browser, listing, gVars, nVars>>

\* the timer fires: cleanupOldFiles calls fs.readdir
SweepFire ==
    /\ Due
    /\ sweep' = [sweep EXCEPT !.pc = "reading", !.last = now]
    /\ UNCHANGED <<hVars, served, browser, listing, gVars, nVars>>

\* the callback of fs.readdir: on an error the sweep ends; otherwise it
\* reads the clock and calls fs.stat for every file listed
SweepListed(listed) ==
    /\ sweep.pc = "reading"
    /\ sweep' = IF listed
                THEN [sweep EXCEPT !.pc = "idle", !.now = now, !.stat = DOMAIN files]
                ELSE [sweep EXCEPT !.pc = "idle"]
    /\ UNCHANGED <<hVars, served, browser, listing, gVars, nVars>>

\* the callback of fs.stat for f: on an error nothing; otherwise fs.unlink
\* is called when the file's age exceeds maxAge
SweepStat(f, found) ==
    /\ f \in sweep.stat
    /\ sweep' = [sweep EXCEPT
                    !.stat = @ \ {f},
                    !.unlink = IF found /\ f \in DOMAIN files
                                     /\ Expired(sweep.now - files[f].mtime)
                               THEN @ \cup {f} ELSE @]
    /\ UNCHANGED <<hVars, served, browser, listing, gVars, nVars>>

\* fs.unlink of f completes: the file is gone, or an error is logged
SweepUnlink(f, removed) ==
    /\ f \in sweep.unlink
    /\ sweep' = [sweep EXCEPT !.unlink = @ \ {f}]
    /\ files' = IF removed /\ f \in DOMAIN files THEN Unlinked(f) ELSE files
    /\ UNCHANGED <<req, now, env, sent, served, browser, listing, gVars, nVars>>

\* the names a client asks for: those of the responses and of the directory,
\* one of no file, and one that leaves the directory
sNothing == <<"n", "o", "n", "e", ".", "p", "d", "f">>
sEscape == <<".", ".", "/">> \o sTemplateGenerator
AskedNames ==
    ({req[r].fileName : r \in Reqs} \ {NoFile}) \cup DOMAIN files \cup {sNothing, sEscape}

\* GET /uploads/<filename>
Get(filename) ==
    /\ served' = GetUpload(filename)
    /\ UNCHANGED <<hVars, sweep, browser, listing, gVars, nVars>>

Sweeper ==
    \/ SweepFire
    \/ SweepListed(TRUE)
    \/ \E f \in sweep.stat : SweepStat(f, TRUE)
    \/ \E f \in sweep.unlink : SweepUnlink(f, TRUE)

SweeperFails ==
    \/ SweepListed(FALSE)
    \/ \E f \in sweep.stat : SweepStat(f, FALSE)
    \/ \E f \in sweep.unlink : SweepUnlink(f, FALSE)

Requests ==
    \/ \E r \in Reqs, body \in StoreBodies : Arrivals /\ Receive(r, body)
    \/ \E r \in Reqs, written \in BOOLEAN : Arrivals /\ RenderDone(r, written)
    \/ \E r \in Reqs, delivered \in BOOLEAN : NotifyDone(r, delivered)

\* the requests whose every step succeeds
Uploads ==
    \/ \E r \in Reqs, body \in StoreBodies : Arrivals /\ Receive(r, body)
    \/ \E r \in Reqs : Arrivals /\ RenderDone(r, TRUE)
    \/ \E r \in Reqs : NotifyDone(r, TRUE)

NextStore ==
    \/ Requests
    \/ Sweeper
    \/ SweeperFails
    \/ TickHours

SpecStore == InitStore /\ [][NextStore]_vars

\* the files a step removes from the directory
Deleted == DOMAIN files \ DOMAIN files'

\* the request that wrote f still awaits its notifier
InFlight(f) == req[files[f].by].pc = "notifying" /\ req[files[f].by].fileName = f

(* C22 as stated: cleanupOldFiles deletes a file only if its age (sweep     *)
(* time minus modification time) is strictly greater than 24 hours, and in *)
(* every interleaving with webhook requests a file written by a request    *)
(* still in flight, or written less than 24 hours before the sweep, is     *)
(* never deleted.                                                          *)
C22_InFlightFileKept ==
    [][\A f \in Deleted :
          /\ sweep.now - files[f].mtime > maxAgeInHours * 3600000
          /\ ~InFlight(f)]_vars

(* C22 amended: cleanupOldFiles deletes a file only in the unlink callback *)
(* of a sweep that found its age (clock reading of the sweep minus the     *)
(* modification time) strictly greater than 24 hours: a file written 24    *)
(* hours or less before the sweep read the clock is never deleted by it,   *)
(* whatever requests interleave; a file of a request in flight is kept for *)
(* that reason alone, and is deleted once it is older.                     *)
C22_OnlyOldFilesDeleted ==
    /\ [](\A f \in sweep.unlink \cap DOMAIN files :
              sweep.now - files[f].mtime > maxAgeInHours * 3600000)
    /\ [][/\ \A f \in Deleted :
                /\ f \in sweep.unlink
                /\ sweep.now - files[f].mtime > maxAgeInHours * 3600000
                /\ now - files[f].mtime > maxAgeInHours * 3600000
          /\ \A f \in DOMAIN files \cap DOMAIN files' :
                files'[f].mtime >= files[f].mtime]_vars

\* the sweep at 36 hours has deleted the file written at the start and has
\* kept the one written at 12 hours, exactly 24 hours old
C22_Witness ==
    /\ now = 3 * SweepEvery
    /\ Quiet
    /\ sweep.last = now
    /\ req["r1"].timestamp = 0 /\ Saved("r1") /\ req["r1"].fileName \notin DOMAIN files
    /\ req["r2"].timestamp = SweepEvery /\ Saved("r2")
    /\ req["r2"].fileName \in DOMAIN files

---------------------------------------------------------------------------
(* Specification SpecLife: requests that succeed, a sweeper whose stat and *)
(* unlink succeed, and a clock that passes. The timer fires when due and   *)
(* the event loop runs every pending callback, hence the weak fairness.    *)

NextLife ==
    \/ Uploads
    \/ Sweeper
    \/ TickHours

SpecLife == InitStore /\ [][NextLife]_vars /\ WF_vars(Sweeper \/ TickHours)

\* the names of the files the requests of this specification can write
LifeNames ==
    {FileName(S, t * ClockStep) :
        S \in {sTurnIn, <<"J", "a", "n", "e", "D", "o", "e">>},
        t \in 0..(SweepEvery \div ClockStep)}

\* 36 hours: the retention and one period of the timer
Deadline == maxAgeInHours * 3600000 + SweepEvery

---------------------------------------------------------------------------
(* Specification SpecServe: requests that succeed, the sweeper, the clock  *)
(* and clients that download                                               *)

NextServe ==
    \/ Uploads
    \/ Sweeper
    \/ \E filename \in AskedNames : Get(filename)
    \/ TickHours

SpecServe == InitStore /\ [][NextServe]_vars

(* C24: GET /uploads/<filename> answers with the stored file exactly when  *)
(* a file of that exact name exists in the uploads directory at that       *)
(* moment, and with 404 'File not found' otherwise; so the file named in a *)
(* successful webhook's URL is retrievable from the response until the     *)
(* sweeper deletes it, and answers 404 afterwards.                         *)
C24_ServedIffStored ==
    [][served' # served =>
          /\ served'.status = 200 <=> served'.name \in DOMAIN files
          /\ served'.status = 200 => served'.path = <<sUploads, served'.name>>
          /\ served'.status # 200 => served'.status = 404]_vars

=============================================================================
